---- MODULE Spec2Model ----
(***************************************************************************)
(* Model of backend/scholarships/recommendation.py: the scholarship        *)
(* recommendation pipeline recommend(user_id):                             *)
(*   profile lookup -> filter_basic -> filter_by_region_preprocessed ->    *)
(*   recommend_final_scholarships_by_gpt (score, sample, call_gpt,         *)
(*   safe_parse_json, validation, fallback) -> projection.                 *)
(*                                                                         *)
(* Strings are sequences of one-symbol strings.  A queryset is the         *)
(* sequence of primary keys of its rows in primary-key order; a record's   *)
(* product_id is its primary key.                                          *)
(***************************************************************************)
EXTENDS Integers, Sequences, FiniteSets, TLC

(***************************************************************************)
(* Bounds of the model.                                                    *)
(***************************************************************************)
\* largest catalog of the filter/scoring specifications
MaxRecs == 2
\* largest catalog of the pipeline specification (one more than sample_size)
MaxCatalog == 21
\* most items of an enumerated response array
MaxItems == 2
\* a table scan may start this many rows after the first row
MaxShift == 1

(***************************************************************************)
(* Program constants.                                                      *)
(***************************************************************************)
\* recommendation.py:182  sample_size = 20
sample_size == 20
\* recommendation.py:248, 275  scored_queryset[:min(scored_queryset.count(), 20)]
fallback_size == 20
\* recommendation.py:283  valid_recommendations[:20]
final_size == 20

(***************************************************************************)
(* Python / SQL string primitives.                                         *)
(***************************************************************************)
Min(a, b) == IF a < b THEN a ELSE b

\* str.strip() removes leading and trailing whitespace
IsSpace(c) == c \in {" ", "\t"}

RECURSIVE lstrip(_)
lstrip(s) == IF s # <<>> /\ IsSpace(Head(s)) THEN lstrip(Tail(s)) ELSE s

RECURSIVE rstrip(_)
rstrip(s) ==
    IF s # <<>> /\ IsSpace(s[Len(s)]) THEN rstrip(SubSeq(s, 1, Len(s) - 1)) ELSE s

strip(s) == rstrip(lstrip(s))

\* str.replace(old, new) for a one-symbol old; new is a string (possibly empty)
RECURSIVE replace(_, _, _)
replace(s, old, new) ==
    IF s = <<>> THEN <<>>
    ELSE (IF Head(s) = old THEN new ELSE <<Head(s)>>) \o replace(Tail(s), old, new)

\* Python's "needle in hay" on strings
Contains(hay, needle) ==
    \E i \in 0..(Len(hay) - Len(needle)) : SubSeq(hay, i + 1, i + Len(needle)) = needle

\* letter-case folding, as the i of the ORM's icontains lookup does
LowerChar(c) ==
    CASE c = "C" -> "c"
      [] c = "S" -> "s"
      [] c = "G" -> "g"
      [] OTHER -> c

lower(s) == [i \in 1..Len(s) |-> LowerChar(s[i])]

\* field__icontains=needle : case-insensitive containment
icontains(field, needle) == Contains(lower(field), lower(needle))

\* ' '.join(parts)
RECURSIVE join(_)
join(parts) ==
    IF parts = <<>> THEN <<>>
    ELSE IF Len(parts) = 1 THEN parts[1]
    ELSE parts[1] \o <<" ">> \o join(Tail(parts))

\* list(filter(None, parts)) : drops the empty strings
filter_none(parts) == SelectSeq(parts, LAMBDA p : p # <<>>)

\* the nationwide marker, two Hangul syllables (they have no letter case)
Nationwide == <<"jeon", "guk">>

\* the any-field sentinel labels of filter_basic, each one symbol here
all_major_keywords == { <<"n/a">>, <<"unrestricted">>, <<"any-major">>, <<"dept">> }

(***************************************************************************)
(* Catalog records and user profiles.                                      *)
(***************************************************************************)
Record(u, y, m, r) ==
    [university_type |-> u, academic_year_type |-> y, major_field |-> m, region |-> r]

Profile(u, y, m, r, d) ==
    [university_type |-> u, academic_year_type |-> y, major_field |-> m,
     region |-> r, district |-> d]

\* the pending value of user_profile before UserScholarship.objects.get
NoProfile == Profile(<<>>, <<>>, <<>>, <<>>, <<>>)

\* Scholarship.objects.all() : every row, in primary-key order
objects_all(cat) == [i \in 1..Len(cat) |-> i]

\* QuerySet.filter(pred) is SelectSeq(qs, pred): the rows satisfying pred,
\* in the order of the queryset.

\* QuerySet.distinct() : each row once
RECURSIVE distinct(_)
distinct(qs) ==
    IF qs = <<>> THEN <<>>
    ELSE LET rest == distinct(SubSeq(qs, 1, Len(qs) - 1))
             last == qs[Len(qs)]
         IN  IF \E i \in 1..Len(rest) : rest[i] = last THEN rest ELSE Append(rest, last)

\* QuerySet.count()
count(qs) == Len(qs)

\* values_list(field, flat=True).distinct() of the three filtered fields
all_university_types(cat, qs) == { cat[qs[i]].university_type : i \in 1..Len(qs) }
all_academic_years_in_db(cat, qs) == { cat[qs[i]].academic_year_type : i \in 1..Len(qs) }

(***************************************************************************)
(* filter_basic (recommendation.py:95-125)                                 *)
(***************************************************************************)
user_univ_type_normalized(p) == replace(strip(p.university_type), "-", <<"~">>)

matching_types(cat, qs, p) ==
    { db_type \in all_university_types(cat, qs) :
        Contains(replace(db_type, "-", <<"~">>), user_univ_type_normalized(p)) }

\* variant: an institution type that matches nothing empties the result
filter_university_strict(cat, qs, p) ==
    IF p.university_type # <<>> /\ strip(p.university_type) # <<>>
    THEN SelectSeq(qs, LAMBDA id : cat[id].university_type \in matching_types(cat, qs, p))
    ELSE qs

filter_university(cat, qs, p) ==
    IF p.university_type # <<>> /\ strip(p.university_type) # <<>>
    THEN IF matching_types(cat, qs, p) # {}
         THEN SelectSeq(qs, LAMBDA id : cat[id].university_type \in matching_types(cat, qs, p))
         ELSE qs
    ELSE qs

user_academic_year_normalized(p) == replace(strip(p.academic_year_type), " ", <<>>)

matching_academic_years(cat, qs, p) ==
    { db_year \in all_academic_years_in_db(cat, qs) :
        Contains(replace(db_year, " ", <<>>), user_academic_year_normalized(p)) }

filter_academic_year(cat, qs, p) ==
    IF p.academic_year_type # <<>> /\ strip(p.academic_year_type) # <<>>
    THEN IF matching_academic_years(cat, qs, p) # {}
         THEN SelectSeq(qs, LAMBDA id :
                  cat[id].academic_year_type \in matching_academic_years(cat, qs, p))
         ELSE qs
    ELSE qs

filter_major(cat, qs, p) ==
    IF p.major_field # <<>> /\ strip(p.major_field) # <<>>
    THEN SelectSeq(qs, LAMBDA id :
             \/ icontains(cat[id].major_field, strip(p.major_field))
             \/ cat[id].major_field \in all_major_keywords)
    ELSE qs

filter_basic(cat, qs, p) ==
    filter_major(cat, filter_academic_year(cat, filter_university(cat, qs, p), p), p)

(***************************************************************************)
(* filter_by_region_preprocessed (recommendation.py:127-146)               *)
(***************************************************************************)
user_region_parts(p) == filter_none(<<strip(p.region), strip(p.district)>>)

full_user_region(p) == join(user_region_parts(p))

\* variant: only the combined string is matched exactly
exact_match_conditions_full_only(p) == {full_user_region(p)}

exact_match_conditions(p) ==
    {full_user_region(p)} \cup { user_region_parts(p)[i] : i \in 1..Len(user_region_parts(p)) }

filter_by_region_preprocessed(cat, qs, p) ==
    IF full_user_region(p) = <<>>
    THEN SelectSeq(qs, LAMBDA id : icontains(cat[id].region, Nationwide))
    ELSE distinct(SelectSeq(qs, LAMBDA id :
             \/ cat[id].region \in exact_match_conditions(p)
             \/ icontains(cat[id].region, Nationwide)))

(***************************************************************************)
(* Scoring and sampling of recommend_final_scholarships_by_gpt             *)
(* (recommendation.py:162-187)                                             *)
(***************************************************************************)
\* the Case/When annotation: the first matching When decides
relevance_score(cat, id, p) ==
    LET user_region_do == p.region
        user_major == p.major_field
    IN  IF cat[id].region = full_user_region(p) THEN 10
        ELSE IF cat[id].region = user_region_do THEN 7
        ELSE IF icontains(cat[id].major_field, user_major) THEN 5
        ELSE IF icontains(cat[id].region, Nationwide) THEN 1
        ELSE 0

ScoreLevels == <<10, 7, 5, 1, 0>>

\* The rows of a queryset in the order a table scan meets them.  The ORM
\* query orders by relevance_score alone, so rows of equal score come in scan
\* order, and a scan may start at any row (here: up to MaxShift rows in).
ScanOrder(qs, shift) == SubSeq(qs, shift + 1, Len(qs)) \o SubSeq(qs, 1, shift)

Shifts(qs) == 0..Min(MaxShift, IF Len(qs) = 0 THEN 0 ELSE Len(qs) - 1)

RECURSIVE ByLevel(_, _, _, _)
ByLevel(cat, rows, p, k) ==
    IF k > Len(ScoreLevels) THEN <<>>
    ELSE SelectSeq(rows, LAMBDA id : relevance_score(cat, id, p) = ScoreLevels[k])
         \o ByLevel(cat, rows, p, k + 1)

\* one evaluation of annotate(relevance_score).order_by('-relevance_score')
scored_queryset(cat, qs, p, shift) == ByLevel(cat, ScanOrder(qs, shift), p, 1)

\* scored_queryset[:k], evaluated by the database
slice(rows, k) == SubSeq(rows, 1, Min(k, Len(rows)))

actual_sample_size(qs) == Min(count(qs), sample_size)

sampled_queryset_for_gpt(cat, qs, p, shift) ==
    slice(scored_queryset(cat, qs, p, shift), actual_sample_size(qs))

(***************************************************************************)
(* The response text of the external generator.                            *)
(*                                                                         *)
(* A text is a sequence of tokens: a run of prose (no bracket, no brace),  *)
(* an opening "[", a closing "]", or one serialized JSON value.  A value   *)
(* is an object with an optional product_id and an optional reason, or a   *)
(* JSON string.  A product_id is a string naming a record (t = "str", v    *)
(* the record's key; 0 names no record), the empty string, a non-empty     *)
(* JSON array, or absent.                                                  *)
(***************************************************************************)
NoReason == "<no reason key>"
GptReason == "reason written by the generator"
ReasonA == "GPT analysis failed: default recommendation"
ReasonB == "recommended automatically from the matching score"

Pid(t, v) == [t |-> t, v |-> v]
NoPid == Pid("missing", 0)

Item(kind, pid, reason) == [kind |-> kind, pid |-> pid, reason |-> reason]
NoItem == Item("none", NoPid, NoReason)
Obj(pid, reason) == Item("object", pid, reason)
JString == Item("string", NoPid, NoReason)

Tok(tok, item) == [tok |-> tok, item |-> item]
Prose == Tok("prose", NoItem)
LBracket == Tok("[", NoItem)
RBracket == Tok("]", NoItem)
Cut == Tok("cut", NoItem)
Value(item) == Tok("value", item)

\* the characters the regular expression looks for, per token
HasLBrace(t) == t.tok = "value" /\ t.item.kind = "object"
HasRBrace(t) == t.tok = "value" /\ t.item.kind = "object"
HasRBracket(t) ==
    t.tok = "]" \/ (t.tok = "value" /\ t.item.kind = "object" /\ t.item.pid.t = "list")

Last(S) == CHOOSE x \in S : \A y \in S : y <= x
First(S) == CHOOSE x \in S : \A y \in S : x <= y

\* positions where r"\[.*\]" matches: a "[" with some "]" after it
BracketStarts(text) ==
    { i \in 1..Len(text) :
        text[i].tok = "[" /\ \E j \in (i + 1)..Len(text) : HasRBracket(text[j]) }

\* positions where r"{.*}" matches: a "{" with some "}" at or after it
BraceStarts(text) ==
    { i \in 1..Len(text) :
        HasLBrace(text[i]) /\ \E j \in i..Len(text) : HasRBrace(text[j]) }

\* re.search(r"\[.*\]|{.*}", text, re.DOTALL): the leftmost match, greedy to
\* the last closing character; "[]" when there is none.  A span that ends at
\* a "]" inside an object ends in the middle of that object (Cut).
extract_json_from_gpt_response(text) ==
    LET starts == BracketStarts(text) \cup BraceStarts(text)
    IN  IF starts = {} THEN <<LBracket, RBracket>>
        ELSE LET i == First(starts)
             IN  IF text[i].tok = "["
                 THEN LET j == Last({ k \in (i + 1)..Len(text) : HasRBracket(text[k]) })
                      IN  IF text[j].tok = "]" THEN SubSeq(text, i, j)
                          ELSE Append(SubSeq(text, i, j - 1), Cut)
                 ELSE LET j == Last({ k \in i..Len(text) : HasRBrace(text[k]) })
                      IN  SubSeq(text, i, j)

\* parsed JSON: a list of items, or a dict
JList(items) == [kind |-> "list", items |-> items]
JDict == [kind |-> "dict", items |-> <<>>]

\* json.loads succeeds on "[" values "]" and on one object; anything else
\* (prose, a nested unbalanced bracket, a cut object, trailing data) raises
JsonValid(span) ==
    \/ /\ Len(span) >= 2
       /\ span[1].tok = "["
       /\ span[Len(span)].tok = "]"
       /\ \A k \in 2..(Len(span) - 1) : span[k].tok = "value"
    \/ /\ Len(span) = 1
       /\ HasLBrace(span[1])

json_loads(span) ==
    IF span[1].tok = "["
    THEN JList([k \in 1..(Len(span) - 2) |-> span[k + 1].item])
    ELSE JDict

\* safe_parse_json: [] on any exception
safe_parse_json(response_text) ==
    LET json_str == extract_json_from_gpt_response(response_text)
    IN  IF JsonValid(json_str) THEN json_loads(json_str) ELSE JList(<<>>)

\* `not isinstance(parsed_response, list) or not parsed_response`
needs_fallback_A(parsed_response) ==
    parsed_response.kind # "list" \/ parsed_response.items = <<>>

(***************************************************************************)
(* call_gpt (recommendation.py:16-45): one request; both except clauses    *)
(* return "".                                                              *)
(***************************************************************************)
\* variant: only the service's own error class is caught
call_gpt_uncaught(outcome) ==
    IF outcome.kind = "ok"
    THEN [raised |-> FALSE, content |-> outcome.text]
    ELSE IF outcome.kind = "OpenAIError"
    THEN [raised |-> FALSE, content |-> <<>>]
    ELSE [raised |-> TRUE, content |-> <<>>]

call_gpt(outcome) ==
    IF outcome.kind = "ok"
    THEN [raised |-> FALSE, content |-> outcome.text]
    ELSE IF outcome.kind = "OpenAIError"
    THEN [raised |-> FALSE, content |-> <<>>]
    ELSE [raised |-> FALSE, content |-> <<>>]

(***************************************************************************)
(* Validation loop and results (recommendation.py:255-287)                 *)
(***************************************************************************)
\* an item of recommend_final_scholarships_by_gpt's list, and of recommend's
FullRec(pid, reason, s) == [product_id |-> pid, reason |-> reason, scholarship |-> s]
Rec(pid, reason) == [product_id |-> pid, reason |-> reason]

\* sampled_ids_map[product_id]: the sampled row with that product_id
sampled_ids_map(sampled, pid) == CHOOSE s \in { sampled[i] : i \in 1..Len(sampled) } : s = pid

InSeq(x, seq) == \E i \in 1..Len(seq) : seq[i] = x

\* item.get('product_id') raises AttributeError on a non-dict item;
\* `product_id in sampled_ids_map` raises TypeError on an unhashable id
item_raises(item) ==
    \/ item.kind # "object"
    \/ item.pid.t = "list"

\* isinstance(item, dict) and product_id and product_id in sampled_ids_map
item_valid(item, sampled) ==
    /\ item.kind = "object"
    /\ item.pid.t = "str"
    /\ InSeq(item.pid.v, sampled)

\* the loop stops at the first item that raises
validation_raises(items) == \E i \in 1..Len(items) : item_raises(items[i])

valid_recommendations(items, sampled) ==
    LET ok == SelectSeq(items, LAMBDA it : item_valid(it, sampled))
    IN  [i \in 1..Len(ok) |->
            FullRec(ok[i].pid.v, ok[i].reason, sampled_ids_map(sampled, ok[i].pid.v))]

\* variant: the fallback is not bounded
fallback_unbounded(rows, reason) ==
    [i \in 1..Len(rows) |-> FullRec(rows[i], reason, rows[i])]

fallback(rows, reason) ==
    LET fallback_qs == slice(rows, Min(Len(rows), fallback_size))
    IN  [i \in 1..Len(fallback_qs) |-> FullRec(fallback_qs[i], reason, fallback_qs[i])]

final_results(valid) == SubSeq(valid, 1, Min(final_size, Len(valid)))

\* recommend's projection r['reason'] raises KeyError when the key is absent
projection_raises(recs) == \E i \in 1..Len(recs) : recs[i].reason = NoReason

\* the list recommend returns: product_id and reason only
projection(recs) == [i \in 1..Len(recs) |-> Rec(recs[i].product_id, recs[i].reason)]

(***************************************************************************)
(* Inputs: catalogs and profiles.                                          *)
(***************************************************************************)
SeqsUpTo(S, n) == UNION { [1..k -> S] : k \in 0..n }

gg == <<"gg">>
pj == <<"pj">>
gg_pj == <<"gg", " ", "pj">>
AnyMajor == <<"any-major">>

\* eligibility values of the filter_basic specification
UnivDb == { <<"4", "-", "6">>, <<"2">> }
UnivUser == { <<>>, <<" ">>, <<"4", "-", "6">>, <<"2", " ">>, <<"9">> }
YearDb == { <<"1", " ", "2">>, <<"3">> }
YearUser == { <<>>, <<"1", "2">>, <<" ", "2">>, <<"9">> }
MajorDb == { <<"C", "s">>, AnyMajor, <<"e">> }
MajorUser == { <<>>, <<" ">>, <<"c", "s">>, <<" ", "e">>, <<"x">> }

BasicRecords ==
    { Record(u, y, m, Nationwide) : u \in UnivDb, y \in YearDb, m \in MajorDb }
BasicProfiles ==
    { Profile(u, y, m, <<>>, <<>>) : u \in UnivUser, y \in YearUser, m \in MajorUser }

\* region values of the region-filter and scoring specifications
RegionDb == { gg_pj, gg, pj, Nationwide, <<"x">> \o Nationwide, <<"se">>, <<>> }
RegionUser == { <<>>, <<" ">>, gg, <<" ", "gg">> }
DistrictUser == { <<>>, pj, <<"pj", " ">> }
ScoreMajorDb == { <<"C", "s">>, <<"e">> }
ScoreMajorUser == { <<>>, <<" ">>, <<"c", "s">> }

RegionRecords ==
    { Record(<<"2">>, <<"3">>, m, r) : m \in ScoreMajorDb, r \in RegionDb }
RegionProfiles ==
    { Profile(<<>>, <<>>, m, r, d) : m \in ScoreMajorUser, r \in RegionUser, d \in DistrictUser }

\* the pipeline specification: a catalog of n records repeats a pattern
K_local == Record(<<"2">>, <<"3">>, <<"C", "s">>, gg_pj)
K_province == Record(<<"2">>, <<"3">>, <<"C", "s">>, gg)
K_nation == Record(<<"2">>, <<"3">>, AnyMajor, Nationwide)
K_other_major == Record(<<"2">>, <<"3">>, <<"e">>, Nationwide)
K_elsewhere == Record(<<"2">>, <<"3">>, <<"C", "s">>, <<"se">>)

Patterns ==
    { <<K_nation>>, <<K_local>>, <<K_local, K_nation>>, <<K_province, K_nation>>,
      <<K_nation, K_other_major>>, <<K_elsewhere>>, <<K_local, K_province, K_nation, K_elsewhere>> }

\* every pattern at the small sizes; two patterns at the sample bound and
\* one record above it
SmallSizes == {0, 1, 2, 3}
LargeSizes == {sample_size, MaxCatalog}
LargePatterns == { <<K_nation>>, <<K_local, K_nation>> }

PatternCatalog(pat, n) == [i \in 1..n |-> pat[((i - 1) % Len(pat)) + 1]]

PipelineCatalogs ==
    { PatternCatalog(pat, n) : pat \in Patterns, n \in SmallSizes }
    \cup { PatternCatalog(pat, n) : pat \in LargePatterns, n \in LargeSizes }

PipelineProfiles ==
    { Profile(<<>>, <<>>, <<"c", "s">>, gg, pj),
      Profile(<<>>, <<>>, <<"c", "s">>, <<" ", "gg">>, pj),
      Profile(<<>>, <<>>, <<>>, <<>>, <<>>) }

\* the user ids a request may carry; only user 1 has a profile
UserIds == {1, 2}
ProfiledUsers == {1}

(***************************************************************************)
(* Inputs: what the external generator can answer.                         *)
(***************************************************************************)
\* identifiers a response may name: two real keys, the last key of the
\* largest catalog, and 0, which names no record
ResponseIds == {0, 1, 2, MaxCatalog}

ResponseItems ==
    { Obj(Pid("str", v), GptReason) : v \in ResponseIds }
    \cup { Obj(Pid("str", 1), NoReason),
           Obj(Pid("missing", 0), GptReason),
           Obj(Pid("empty", 0), GptReason),
           Obj(Pid("list", 0), GptReason),
           JString }

ArrayText(items) ==
    <<LBracket>> \o [i \in 1..Len(items) |-> Value(items[i])] \o <<RBracket>>

\* the ranking the prompt asks for: every sampled record once, here reversed
RankingOf(sampled) ==
    [i \in 1..Len(sampled) |-> Obj(Pid("str", sampled[Len(sampled) + 1 - i]), GptReason)]

ResponseTexts(sampled) ==
    LET arrays == { ArrayText(items) : items \in SeqsUpTo(ResponseItems, MaxItems) }
        short == { ArrayText(items) : items \in SeqsUpTo(ResponseItems, 1) }
    IN  arrays
        \cup { <<Prose>> \o a : a \in short }
        \cup { a \o <<Prose>> : a \in short }
        \cup { <<LBracket, Prose, RBracket>> \o a : a \in short }
        \cup { <<>>, <<Prose>>,
               <<Value(Obj(Pid("str", 1), GptReason))>>,
               <<Prose, Value(Obj(Pid("list", 0), GptReason)), Prose>>,
               <<LBracket, Value(Obj(Pid("str", 1), GptReason))>>,
               <<LBracket, Value(Obj(Pid("list", 0), GptReason))>>,
               <<Value(Obj(Pid("str", 1), GptReason)), RBracket>>,
               ArrayText(RankingOf(sampled)),
               ArrayText(RankingOf(sampled) \o RankingOf(sampled)) }

GptOutcomes(sampled) ==
    { [kind |-> "ok", text |-> t] : t \in ResponseTexts(sampled) }
    \cup { [kind |-> "OpenAIError", text |-> <<>>], [kind |-> "Exception", text |-> <<>>] }

(***************************************************************************)
(* State.                                                                  *)
(***************************************************************************)
VARIABLES
    pc,                     \* position in recommend()
    user_id,                \* the argument of recommend
    profile_store,          \* UserScholarship rows, by user_id
    catalog,                \* Scholarship rows, by primary key
    user_profile,           \* recommend's local
    scholarships_basic,     \* `scholarships` after filter_basic
    scholarships,           \* `scholarships` after filter_by_region_preprocessed
    sampled,                \* sampled_queryset_for_gpt, evaluated
    gpt_calls,              \* requests sent to the external service
    gpt_outcome,            \* what the external service did with the request
    gpt_response_content,   \* what call_gpt returned
    final_recommendations,  \* what recommend_final_scholarships_by_gpt returned
    result,                 \* what recommend returned
    outcome                 \* "running", "returned" or the exception raised

vars ==
    <<pc, user_id, profile_store, catalog, user_profile, scholarships_basic, scholarships,
      sampled, gpt_calls, gpt_outcome, gpt_response_content, final_recommendations,
      result, outcome>>

NoOutcome == [kind |-> "none", text |-> <<>>]

InitLocals ==
    /\ pc = "start"
    /\ user_profile = NoProfile
    /\ scholarships_basic = <<>>
    /\ scholarships = <<>>
    /\ sampled = <<>>
    /\ gpt_calls = 0
    /\ gpt_outcome = NoOutcome
    /\ gpt_response_content = <<>>
    /\ final_recommendations = <<>>
    /\ result = <<>>
    /\ outcome = "running"

Init ==
    /\ user_id \in UserIds
    /\ profile_store \in { [u \in ProfiledUsers |-> p] : p \in PipelineProfiles }
    /\ catalog \in PipelineCatalogs
    /\ InitLocals

InitBasic ==
    /\ user_id \in ProfiledUsers
    /\ profile_store \in { [u \in ProfiledUsers |-> p] : p \in BasicProfiles }
    /\ catalog \in SeqsUpTo(BasicRecords, MaxRecs)
    /\ InitLocals

InitRegion ==
    /\ user_id \in ProfiledUsers
    /\ profile_store \in { [u \in ProfiledUsers |-> p] : p \in RegionProfiles }
    /\ catalog \in SeqsUpTo(RegionRecords, MaxRecs)
    /\ InitLocals

(***************************************************************************)
(* recommend (recommendation.py:294-327), step by step.                    *)
(***************************************************************************)
Raise(exc) ==
    /\ outcome' = exc
    /\ pc' = "done"

\* UserScholarship.objects.get(user_id=user_id); DoesNotExist returns []
LoadProfile ==
    /\ pc = "start"
    /\ IF user_id \in DOMAIN profile_store
       THEN /\ user_profile' = profile_store[user_id]
            /\ pc' = "basic"
            /\ UNCHANGED <<result, outcome>>
       ELSE /\ result' = <<>>
            /\ outcome' = "returned"
            /\ pc' = "done"
            /\ UNCHANGED user_profile
    /\ UNCHANGED <<user_id, profile_store, catalog, scholarships_basic, scholarships, sampled,
                   gpt_calls, gpt_outcome, gpt_response_content, final_recommendations>>

\* scholarships = filter_basic(Scholarship.objects.all(), user_profile)
ApplyFilterBasic ==
    /\ pc = "basic"
    /\ scholarships_basic' = filter_basic(catalog, objects_all(catalog), user_profile)
    /\ pc' = "region"
    /\ UNCHANGED <<user_id, profile_store, catalog, user_profile, scholarships, sampled,
                   gpt_calls, gpt_outcome, gpt_response_content, final_recommendations,
                   result, outcome>>

\* scholarships = filter_by_region_preprocessed(scholarships, user_profile)
ApplyFilterRegion ==
    /\ pc = "region"
    /\ scholarships' = filter_by_region_preprocessed(catalog, scholarships_basic, user_profile)
    /\ pc' = "rank"
    /\ UNCHANGED <<user_id, profile_store, catalog, user_profile, scholarships_basic, sampled,
                   gpt_calls, gpt_outcome, gpt_response_content, final_recommendations,
                   result, outcome>>

\* variant: no early return on an empty candidate set
ScoreAndSample_no_empty_check ==
    /\ pc = "rank"
    /\ \E shift \in Shifts(scholarships) :
           sampled' = sampled_queryset_for_gpt(catalog, scholarships, user_profile, shift)
    /\ pc' = "call"
    /\ UNCHANGED <<user_id, profile_store, catalog, user_profile, scholarships_basic,
                   scholarships, gpt_calls, gpt_outcome, gpt_response_content,
                   final_recommendations, result, outcome>>

\* recommend_final_scholarships_by_gpt, lines 158-187: the empty check, then
\* the evaluation of the sample
ScoreAndSample ==
    /\ pc = "rank"
    /\ IF count(scholarships) = 0
       THEN /\ final_recommendations' = <<>>
            /\ pc' = "project"
            /\ UNCHANGED sampled
       ELSE /\ \E shift \in Shifts(scholarships) :
                   sampled' = sampled_queryset_for_gpt(catalog, scholarships, user_profile, shift)
            /\ pc' = "call"
            /\ UNCHANGED final_recommendations
    /\ UNCHANGED <<user_id, profile_store, catalog, user_profile, scholarships_basic,
                   scholarships, gpt_calls, gpt_outcome, gpt_response_content, result, outcome>>

\* line 243: gpt_response_content = call_gpt(prompt)
CallGpt ==
    /\ pc = "call"
    /\ \E o \in GptOutcomes(sampled) :
          /\ gpt_outcome' = o
          /\ gpt_calls' = gpt_calls + 1
          /\ IF call_gpt(o).raised
             THEN /\ Raise(o.kind)
                  /\ UNCHANGED gpt_response_content
             ELSE /\ gpt_response_content' = call_gpt(o).content
                  /\ pc' = "parse"
                  /\ UNCHANGED outcome
    /\ UNCHANGED <<user_id, profile_store, catalog, user_profile, scholarships_basic,
                   scholarships, sampled, final_recommendations, result>>

\* lines 244-287: parse, fallback A, validation, fallback B, final results.
\* Each fallback slices scored_queryset again, which is a new query.
ParseAndValidate ==
    /\ pc = "parse"
    /\ LET parsed_response == safe_parse_json(gpt_response_content)
           valid == valid_recommendations(parsed_response.items, sampled)
       IN  IF needs_fallback_A(parsed_response)
           THEN /\ \E shift \in Shifts(scholarships) :
                       final_recommendations' =
                           fallback(scored_queryset(catalog, scholarships, user_profile, shift),
                                    ReasonA)
                /\ pc' = "project"
                /\ UNCHANGED outcome
           ELSE IF validation_raises(parsed_response.items)
           THEN /\ Raise("TypeError")
                /\ UNCHANGED final_recommendations
           ELSE IF valid = <<>>
           THEN /\ \E shift \in Shifts(scholarships) :
                       final_recommendations' =
                           fallback(scored_queryset(catalog, scholarships, user_profile, shift),
                                    ReasonB)
                /\ pc' = "project"
                /\ UNCHANGED outcome
           ELSE /\ final_recommendations' = final_results(valid)
                /\ pc' = "project"
                /\ UNCHANGED outcome
    /\ UNCHANGED <<user_id, profile_store, catalog, user_profile, scholarships_basic,
                   scholarships, sampled, gpt_calls, gpt_outcome, gpt_response_content, result>>

\* lines 321-327: the (product_id, reason) pairs
Project ==
    /\ pc = "project"
    /\ IF projection_raises(final_recommendations)
       THEN /\ Raise("KeyError")
            /\ UNCHANGED result
       ELSE /\ result' = projection(final_recommendations)
            /\ outcome' = "returned"
            /\ pc' = "done"
    /\ UNCHANGED <<user_id, profile_store, catalog, user_profile, scholarships_basic,
                   scholarships, sampled, gpt_calls, gpt_outcome, gpt_response_content,
                   final_recommendations>>

Next ==
    \/ LoadProfile
    \/ ApplyFilterBasic
    \/ ApplyFilterRegion
    \/ ScoreAndSample
    \/ CallGpt
    \/ ParseAndValidate
    \/ Project

Spec == Init /\ [][Next]_vars

\* filter_basic on every small catalog and profile
NextBasic == LoadProfile \/ ApplyFilterBasic
SpecBasic == InitBasic /\ [][NextBasic]_vars

\* filter_by_region_preprocessed on every small catalog and profile
NextRegion == LoadProfile \/ ApplyFilterBasic \/ ApplyFilterRegion
SpecRegion == InitRegion /\ [][NextRegion]_vars

\* scoring and sampling on every small catalog and profile
NextScore == LoadProfile \/ ApplyFilterBasic \/ ApplyFilterRegion \/ ScoreAndSample
SpecScore == InitRegion /\ [][NextScore]_vars

(***************************************************************************)
(* Properties.                                                             *)
(***************************************************************************)
Range(seq) == { seq[i] : i \in 1..Len(seq) }

HasProfile == user_id \in DOMAIN profile_store

AfterCall == pc \in {"parse", "project", "done"} /\ gpt_calls > 0

Raised == outcome \notin {"running", "returned"}

\* C1: recommend never propagates an error: whatever the user, the catalog
\* and the outcome of the external call, a finished request has returned a
\* list of (product_id, reason) pairs.
C1_NeverRaises ==
    pc = "done" =>
        /\ outcome = "returned"
        /\ \A i \in 1..Len(result) : result[i].reason # NoReason

\* C2: every product_id returned by recommend_final_scholarships_by_gpt, on
\* the validated path and on both fallback paths, is the identifier of a
\* record of the sample that was serialized into the prompt.
C2_IdsInSample ==
    (pc \in {"project", "done"} /\ ~Raised) =>
        \A i \in 1..Len(final_recommendations) :
            final_recommendations[i].product_id \in Range(sampled)

C6_NoCallWithoutCandidates ==
    /\ (pc = "done" /\ (~HasProfile \/ scholarships = <<>>)) =>
           /\ result = <<>>
           /\ outcome = "returned"
           /\ gpt_calls = 0
    /\ gpt_calls > 0 =>
           /\ HasProfile
           /\ pc \in {"parse", "project", "done"}
           /\ scholarships # <<>>
           /\ Range(scholarships) \subseteq Range(scholarships_basic)
           /\ Range(scholarships_basic) \subseteq 1..Len(catalog)

\* C6 witness: a known user whose non-empty catalog is emptied by the
\* filters got the empty list without any external call
C6_Witness ==
    /\ pc = "done"
    /\ HasProfile
    /\ catalog # <<>>
    /\ scholarships = <<>>
    /\ result = <<>>
    /\ gpt_calls = 0

\* The text holds a bracket-delimited span that is a non-empty JSON array:
\* a "[" preceded by no bracket and no brace, JSON values up to a "]", and
\* no closing bracket after that.
ParsesToNonEmptyArray(text) ==
    \E i, j \in 1..Len(text) :
        /\ i + 1 < j
        /\ text[i].tok = "["
        /\ text[j].tok = "]"
        /\ \A k \in (i + 1)..(j - 1) : text[k].tok = "value"
        /\ \A k \in 1..(i - 1) : text[k].tok # "[" /\ ~HasLBrace(text[k])
        /\ \A k \in (j + 1)..Len(text) : ~HasRBracket(text[k])

Score(id) == relevance_score(catalog, id, user_profile)

\* recs are the first min(n, 20) of the n candidates in a score-descending
\* order, each with the given reason
IsFallback(recs, reasons) ==
    /\ Len(recs) = Min(Len(scholarships), 20)
    /\ \A i \in 1..Len(recs) :
          /\ recs[i].product_id \in Range(scholarships)
          /\ recs[i].reason \in reasons
    /\ \A i, j \in 1..Len(recs) : i < j => recs[i].product_id # recs[j].product_id
    /\ \A i \in 1..(Len(recs) - 1) :
          Score(recs[i].product_id) >= Score(recs[i + 1].product_id)
    /\ \A id \in Range(scholarships) \ { recs[i].product_id : i \in 1..Len(recs) } :
          Score(recs[Len(recs)].product_id) >= Score(id)

CallFailedOrUnusable ==
    /\ pc \in {"project", "done"}
    /\ gpt_calls > 0
    /\ gpt_outcome.kind # "ok" \/ ~ParsesToNonEmptyArray(gpt_outcome.text)

\* C4: fallback condition A: with a non-empty candidate set, when the
\* external call fails or its text does not parse to a non-empty JSON list,
\* the result is exactly the first min(n, 20) records of the score-descending
\* ordering of the n candidates, each with the same fixed generic reason.
C4_FallbackA ==
    CallFailedOrUnusable =>
        /\ ~Raised
        /\ IsFallback(final_recommendations, {ReasonA})
        /\ pc = "done" =>
               /\ Len(result) = Len(final_recommendations)
               /\ \A i \in 1..Len(result) :
                      result[i] = Rec(final_recommendations[i].product_id, ReasonA)

\* C4 witness: the call failed with more candidates than the sample bound,
\* and the request returned sample_size fallback records
C4_Witness ==
    /\ pc = "done"
    /\ gpt_outcome.kind = "Exception"
    /\ Len(scholarships) > sample_size
    /\ Len(result) = sample_size
    /\ \A i \in 1..Len(result) : result[i].reason = ReasonA

ParsedItems == safe_parse_json(gpt_outcome.text).items

\* the item is a structured object whose non-empty identifier is the
\* identifier of a sampled record
Acceptable(item) ==
    /\ item.kind = "object"
    /\ item.pid.t = "str"
    /\ item.pid.v \in Range(sampled)

\* C5: fallback condition B: when the response is a valid non-empty JSON
\* array in which no object carries an identifier of the sample, the result
\* is the deterministic fallback, each record with a generic reason, and no
\* reason of the generator appears in it.
C5_FallbackB ==
    (/\ pc = "done"
     /\ gpt_calls > 0
     /\ gpt_outcome.kind = "ok"
     /\ ParsesToNonEmptyArray(gpt_outcome.text)
     /\ \A i \in 1..Len(ParsedItems) : ~Acceptable(ParsedItems[i]))
    => /\ outcome = "returned"
       /\ IsFallback(result, {ReasonA, ReasonB})

\* C9: on the non-fallback path the result of
\* recommend_final_scholarships_by_gpt is exactly the acceptable items of the
\* parsed response, in the generator's order, cut to the first 20; any other
\* item is discarded without affecting the rest.
C9_ValidatedSubsequence ==
    (/\ pc \in {"project", "done"}
     /\ gpt_calls > 0
     /\ gpt_outcome.kind = "ok"
     /\ ParsesToNonEmptyArray(gpt_outcome.text)
     /\ \E i \in 1..Len(ParsedItems) : Acceptable(ParsedItems[i]))
    => LET accepted == SelectSeq(ParsedItems, Acceptable)
       IN  /\ outcome # "TypeError"
           /\ final_recommendations =
                  [i \in 1..Min(20, Len(accepted)) |->
                      FullRec(accepted[i].pid.v, accepted[i].reason, accepted[i].pid.v)]

(***************************************************************************)
(* Properties of the filters and of the scoring.                           *)
(***************************************************************************)
Ids == 1..Len(catalog)

\* the profile of the request
TheProfile == profile_store[user_id]

NormUniv(s) == replace(s, "-", <<"~">>)
NormYear(s) == replace(s, " ", <<>>)

UnivMatch(id) ==
    Contains(NormUniv(catalog[id].university_type), NormUniv(strip(TheProfile.university_type)))

\* the institution-type sub-filter applies: the user's value is not empty
\* after trimming and is a substring of some catalog value
UnivApplies ==
    /\ strip(TheProfile.university_type) # <<>>
    /\ \E id \in Ids : UnivMatch(id)

UnivOk(id) == ~UnivApplies \/ UnivMatch(id)

YearMatch(id) ==
    Contains(NormYear(catalog[id].academic_year_type),
             NormYear(strip(TheProfile.academic_year_type)))

\* likewise for the academic year, over the records still under consideration
YearApplies ==
    /\ strip(TheProfile.academic_year_type) # <<>>
    /\ \E id \in Ids : UnivOk(id) /\ YearMatch(id)

YearOk(id) == ~YearApplies \/ YearMatch(id)

IsSentinel(id) == catalog[id].major_field \in all_major_keywords

\* field of study, compared letter for letter
MajorOkExact(id) ==
    \/ strip(TheProfile.major_field) = <<>>
    \/ Contains(catalog[id].major_field, strip(TheProfile.major_field))
    \/ IsSentinel(id)

\* field of study, compared without regard to letter case
MajorOkFolded(id) ==
    \/ strip(TheProfile.major_field) = <<>>
    \/ Contains(lower(catalog[id].major_field), lower(strip(TheProfile.major_field)))
    \/ IsSentinel(id)

NoDuplicates(seq) == \A i, j \in 1..Len(seq) : i # j => seq[i] # seq[j]

\* C7 as stated: a record is in the output of filter_basic exactly when each
\* of the three sub-filters is not applicable or matches, the field of study
\* matching when the user's field is a substring of the record's field.
C7_FilterBasicExact ==
    pc = "region" =>
        \A id \in Ids :
            InSeq(id, scholarships_basic) <=> (UnivOk(id) /\ YearOk(id) /\ MajorOkExact(id))

\* C7 as amended: the same, the field of study matching when the user's
\* field is a substring of the record's field without regard to letter case.
C7_FilterBasicFolded ==
    pc = "region" =>
        /\ NoDuplicates(scholarships_basic)
        /\ \A id \in Ids :
               InSeq(id, scholarships_basic) <=>
                   (UnivOk(id) /\ YearOk(id) /\ MajorOkFolded(id))

\* C7 witness: the institution type matched nothing and excluded nothing,
\* the academic year excluded a record, and a record was kept on a field of
\* study that differs from the user's in letter case
C7_Witness ==
    /\ pc = "region"
    /\ strip(TheProfile.university_type) # <<>>
    /\ ~UnivApplies
    /\ YearApplies
    /\ \E id \in Ids : ~YearMatch(id)
    /\ \E id \in Ids :
          /\ InSeq(id, scholarships_basic)
          /\ ~IsSentinel(id)
          /\ ~MajorOkExact(id)

Province == strip(TheProfile.region)
District == strip(TheProfile.district)

\* the trimmed province and the trimmed district joined by one space, empty
\* parts omitted
Combined ==
    IF Province = <<>> THEN District
    ELSE IF District = <<>> THEN Province
    ELSE Province \o <<" ">> \o District

IsNationwide(id) == Contains(catalog[id].region, Nationwide)

RegionOutputWellFormed ==
    /\ NoDuplicates(scholarships)
    /\ Range(scholarships) \subseteq Range(scholarships_basic)
    /\ Combined = <<>> => \A id \in Range(scholarships) : IsNationwide(id)

\* C8 as stated: with an empty combined string only nationwide records are
\* kept; otherwise a record of the input is kept exactly when its region
\* equals the combined string, the province alone, the district alone, or
\* contains the nationwide marker; no duplicates, nothing from outside.
C8_RegionExact ==
    pc = "rank" =>
        /\ RegionOutputWellFormed
        /\ Combined # <<>> =>
               \A id \in Range(scholarships_basic) :
                   InSeq(id, scholarships) <=>
                       \/ catalog[id].region = Combined
                       \/ catalog[id].region = Province
                       \/ catalog[id].region = District
                       \/ IsNationwide(id)

\* C8 as amended: the province alone and the district alone are matched
\* only when they are not empty.
C8_RegionNonEmptyParts ==
    pc = "rank" =>
        /\ RegionOutputWellFormed
        /\ Combined = <<>> =>
               \A id \in Range(scholarships_basic) : IsNationwide(id) => InSeq(id, scholarships)
        /\ Combined # <<>> =>
               \A id \in Range(scholarships_basic) :
                   InSeq(id, scholarships) <=>
                       \/ catalog[id].region = Combined
                       \/ Province # <<>> /\ catalog[id].region = Province
                       \/ District # <<>> /\ catalog[id].region = District
                       \/ IsNationwide(id)

\* C8 witness: the province is empty, a record with an empty region was
\* dropped, and a record was kept because its region is the district alone
C8_Witness ==
    /\ pc = "rank"
    /\ Province = <<>>
    /\ District # <<>>
    /\ \E id \in Range(scholarships_basic) :
          catalog[id].region = <<>> /\ ~InSeq(id, scholarships)
    /\ \E id \in Range(scholarships) : catalog[id].region = District

\* the score the first matching rule gives
ExpectedScore(id) ==
    IF catalog[id].region = Combined THEN 10
    ELSE IF catalog[id].region = Province THEN 7
    ELSE IF Contains(catalog[id].major_field, TheProfile.major_field) THEN 5
    ELSE IF IsNationwide(id) THEN 1
    ELSE 0

\* C10: every candidate's relevance score is the one the first matching rule
\* gives (10 combined region, 7 province alone, 5 field of study, 1
\* nationwide, 0 otherwise), and the sample is the first min(n, 20) records
\* in descending score order.
C10_FirstMatchingRule ==
    pc = "call" =>
        /\ \A id \in Range(scholarships) : Score(id) = ExpectedScore(id)
        /\ Len(sampled) = Min(Len(scholarships), 20)
        /\ \A i, j \in 1..Len(sampled) :
               i < j => ExpectedScore(sampled[i]) >= ExpectedScore(sampled[j])

====
